---- MODULE Spec2Model ----
(***************************************************************************)
(* Employee.ipynb as a state machine: the notebook's code cells run in     *)
(* order over the data frame df.  Cell 187bf85b labels every message,      *)
(* cell 69e9e2ad parses the dates, cell e46b980c builds monthly_scores,    *)
(* cell e9a981bb ranks, cell 1fcf2761 scans for flight risks (its two      *)
(* nested loops are stepped one statement at a time) and cell 0aaa6e08     *)
(* builds the feature table.                                               *)
(*                                                                         *)
(* Encoding.  An employee id is a positive integer (ids compare as the     *)
(* strings of the source do).  A timestamp is a number of ticks since      *)
(* 1 January 00:00 of a non-leap year, TicksPerDay ticks to the day, so a  *)
(* timestamp has a time of day; NaT is the null timestamp and NaN the      *)
(* missing value.                                                          *)
(***************************************************************************)
EXTENDS Integers, Sequences, FiniteSets

VARIABLES df, monthly_scores, top_3_pos, top_3_neg, df_neg, flight_risk,
          features, pending, emp, dates, i, count, pc, evaluated

vars == <<df, monthly_scores, top_3_pos, top_3_neg, df_neg, flight_risk,
          features, pending, emp, dates, i, count, pc, evaluated>>

-----------------------------------------------------------------------------
(* Bounds of the explored inputs *)

TicksPerDay == 2
MaxRows == 4
MaxAggRows == 3
MaxScanRows == 4
MaxDense == 8
NumStamps == 4
MaxPerStamp == 3

(* Literals of the notebook *)

WindowDays == 30
Threshold == 4
Lookback == 10
TopN == 3
PosCut == 5
NegCut == -5

NaT == -1
NaN == "NaN"
NaNLen == -1
Unparsable == -2

-----------------------------------------------------------------------------
(* Values *)

Stamp(day, tick) == day * TicksPerDay + tick

Max(a, b) == IF a > b THEN a ELSE b

Range(s) == {s[k] : k \in DOMAIN s}

SeqsUpTo(S, n) == UNION {[1..k -> S] : k \in 0..n}

RECURSIVE TakeIdx(_, _)
(* the rows of s at the positions I, in the order of s *)
TakeIdx(s, I) ==
    IF I = {} THEN <<>>
    ELSE LET k == CHOOSE x \in I : \A y \in I : x <= y
         IN <<s[k]>> \o TakeIdx(s, I \ {k})

RECURSIVE Repeat(_, _)
Repeat(x, n) == IF n = 0 THEN <<>> ELSE <<x>> \o Repeat(x, n - 1)

-----------------------------------------------------------------------------
(* Cell 187bf85b: sentiment labelling *)

(* VADER's compound score of a text, in hundredths *)
compound(text) ==
    CASE text = "good" -> 44
      [] text = "bad" -> -54
      [] OTHER -> 0

get_sentiment(text) ==
    IF text = NaN THEN "Neutral"
    ELSE IF compound(text) >= PosCut THEN "Positive"
    ELSE IF compound(text) <= NegCut THEN "Negative"
    ELSE "Neutral"

(* df['sentiment_label'] = df['body'].apply(get_sentiment) *)
ApplySentiment(d) ==
    [k \in DOMAIN d |->
        [from |-> d[k].from, date |-> d[k].date, body |-> d[k].body,
         sentiment_label |-> get_sentiment(d[k].body)]]

(* Cell 69e9e2ad: pd.to_datetime(errors='coerce') and dt.to_period('M') *)

to_datetime(raw) == IF raw = Unparsable THEN NaT ELSE raw

MonthLengths == <<31, 28, 31, 30, 31, 30, 31, 31, 30, 31, 30, 31>>

DayOf(t) == t \div TicksPerDay

RECURSIVE MonthFrom(_, _)
MonthFrom(day, m) ==
    IF m = 12 \/ day < MonthLengths[m] THEN m
    ELSE MonthFrom(day - MonthLengths[m], m + 1)

to_period(t) == IF t = NaT THEN NaT ELSE MonthFrom(DayOf(t), 1)

(* df['date'] = pd.to_datetime(df['date'], errors='coerce');
   df['month'] = df['date'].dt.to_period('M') *)
CoerceDates(d) ==
    [k \in DOMAIN d |->
        [from |-> d[k].from, date |-> to_datetime(d[k].date),
         body |-> d[k].body, sentiment_label |-> d[k].sentiment_label,
         month |-> to_period(to_datetime(d[k].date))]]

-----------------------------------------------------------------------------
(* pandas sort_values: a stable sort on a tuple of integer keys *)

LexLess(a, b) ==
    \E p \in 1..Len(a) : a[p] < b[p] /\ \A q \in 1..(p - 1) : a[q] = b[q]

(* x goes behind every row that is not greater than it: the sort is stable *)
InsertSorted(x, acc) ==
    LET p == Cardinality({k \in DOMAIN acc : ~LexLess(x[1], acc[k][1])})
    IN SubSeq(acc, 1, p) \o <<x>> \o SubSeq(acc, p + 1, Len(acc))

RECURSIVE StableSort(_)
StableSort(ps) ==
    IF ps = <<>> THEN <<>>
    ELSE InsertSorted(ps[Len(ps)], StableSort(SubSeq(ps, 1, Len(ps) - 1)))

(* the rows of s in the order of their keys, keys[k] the key of s[k] *)
sort_values(s, keys) ==
    LET sorted == StableSort([k \in DOMAIN s |-> <<keys[k], s[k]>>])
    IN [k \in DOMAIN s |-> sorted[k][2]]

(* a null sorts last (na_position='last') *)
NullLast(v) == IF v = NaT THEN <<1, 0>> ELSE <<0, v>>

-----------------------------------------------------------------------------
(* Cell e46b980c: scores and monthly_scores *)

score_mapper(label) ==
    CASE label = "Positive" -> 1
      [] label = "Negative" -> -1
      [] label = "Neutral" -> 0

AddScoreColumns(d) ==
    [k \in DOMAIN d |->
        [from |-> d[k].from, date |-> d[k].date, body |-> d[k].body,
         sentiment_label |-> d[k].sentiment_label,
         score |-> score_mapper(d[k].sentiment_label),
         month |-> to_period(d[k].date),
         employee |-> d[k].from]]

(* groupby(['employee','month']): rows with a null key are dropped, the
   groups come out sorted by key *)
RECURSIVE SortedKeys(_)
SortedKeys(K) ==
    IF K = {} THEN <<>>
    ELSE LET k == CHOOSE x \in K : \A y \in K \ {x} : LexLess(x, y)
         IN <<k>> \o SortedKeys(K \ {k})

(* the groups with the rows of a null month kept *)
GroupKeysWithNull(d) ==
    SortedKeys({<<d[k].employee, d[k].month>> : k \in DOMAIN d})

GroupKeys(d) ==
    SortedKeys({<<d[k].employee, d[k].month>> :
                   k \in {x \in DOMAIN d : d[x].month # NaT}})

InGroup(r, key) == r.employee = key[1] /\ r.month = key[2]

RECURSIVE SumOf(_)
SumOf(xs) == IF xs = <<>> THEN 0 ELSE xs[1] + SumOf(Tail(xs))

(* the column col of the rows of d in the group key, in the order of d *)
GroupRows(d, key) == TakeIdx(d, {k \in DOMAIN d : InGroup(d[k], key)})

GroupBySum(d) ==
    LET keys == GroupKeys(d)
    IN [g \in DOMAIN keys |->
           LET rows == GroupRows(d, keys[g])
           IN [employee |-> keys[g][1], month |-> keys[g][2],
               score |-> SumOf([k \in DOMAIN rows |-> rows[k].score])]]

-----------------------------------------------------------------------------
(* Cell e9a981bb: the monthly top 3 *)

(* the sort keys with the employee tie-break dropped, or reversed *)
PosKeyNoTie(r) == <<r.month, 0 - r.score>>
NegKeyReversedTie(r) == <<r.month, r.score, 0 - r.employee>>

PosKey(r) == <<r.month, 0 - r.score, r.employee>>
NegKey(r) == <<r.month, r.score, r.employee>>

(* groupby('month').head(n): the first n rows of each month, in the order of s *)
HeadPerMonth(s, n) ==
    TakeIdx(s, {k \in DOMAIN s :
                   Cardinality({j \in 1..(k - 1) : s[j].month = s[k].month}) < n})

TopPositive(ms) ==
    HeadPerMonth(sort_values(ms, [k \in DOMAIN ms |-> PosKey(ms[k])]), TopN)

TopNegative(ms) ==
    HeadPerMonth(sort_values(ms, [k \in DOMAIN ms |-> NegKey(ms[k])]), TopN)

-----------------------------------------------------------------------------
(* Cell 1fcf2761: the flight-risk scan *)

(* a filter that lets the Neutral records through *)
IsNotPositive(r) == r.sentiment_label # "Positive"

IsNegative(r) == r.sentiment_label = "Negative"

NegKeyOf(r) == <<r.employee>> \o NullLast(r.date)

NegativeRows(d) ==
    LET neg == TakeIdx(d, {k \in DOMAIN d : IsNegative(d[k])})
    IN sort_values([k \in DOMAIN neg |->
                       [employee |-> neg[k].employee, date |-> neg[k].date]],
                   [k \in DOMAIN neg |-> NegKeyOf(neg[k])])

(* the keys of df_neg.groupby('employee'), ascending *)
EmployeeKeys(dn) == SortedKeys({<<dn[k].employee>> : k \in DOMAIN dn})

DatesOf(dn, e) ==
    LET rows == TakeIdx(dn, {k \in DOMAIN dn : dn[k].employee = e})
    IN [k \in DOMAIN rows |-> rows[k].date]

(* a window that leaves out the day exactly WindowDays back *)
InWindowExclusive(x, d) ==
    /\ x # NaT
    /\ d # NaT
    /\ (x - d) \div TicksPerDay < WindowDays
    /\ (x - d) \div TicksPerDay >= 0

(* (x - d).days: the whole days of the difference, rounded down; the
   difference with a NaT is NaT, whose days compare false with everything *)
InWindow(x, d) ==
    /\ x # NaT
    /\ d # NaT
    /\ (x - d) \div TicksPerDay <= WindowDays
    /\ (x - d) \div TicksPerDay >= 0

(* a slice that looks back 2 records only *)
SliceShort(ds, ix) == (Max(0, ix - 2) + 1)..(ix + 1)

(* dates[max(0,i-10):i+1] as positions of the 1-based sequence *)
Slice(ds, ix) == (Max(0, ix - Lookback) + 1)..(ix + 1)

WindowCount(ds, ix) ==
    Cardinality({k \in Slice(ds, ix) : InWindow(ds[ix + 1], ds[k])})

(* the inner loop from position ix on: whether it reaches the break *)
RECURSIVE ScanDates(_, _)
ScanDates(ds, ix) ==
    IF ix >= Len(ds) THEN FALSE
    ELSE IF WindowCount(ds, ix) >= Threshold THEN TRUE
    ELSE ScanDates(ds, ix + 1)

(* the employees the cell leaves in flight_risk, given the data frame *)
FlightRiskSet(d) ==
    LET dn == NegativeRows(d)
    IN {e \in {dn[k].employee : k \in DOMAIN dn} : ScanDates(DatesOf(dn, e), 0)}

-----------------------------------------------------------------------------
(* Cell 0aaa6e08: the feature table *)

str_len(body) ==
    CASE body = NaN -> NaNLen
      [] body = "good" -> 4
      [] body = "bad" -> 3
      [] OTHER -> 5

(* the mean skips the missing lengths: <<sum, n>> stands for sum / n, and
   <<0, 0>> for the NaN that the mean of no value is *)
MeanOf(xs) ==
    LET have == TakeIdx(xs, {k \in DOMAIN xs : xs[k] # NaNLen})
    IN <<SumOf(have), Len(have)>>

(* 'count' counts the values that are not missing *)
CountOf(xs) == Cardinality({k \in DOMAIN xs : xs[k] # NaN})

Features(d) ==
    LET keys == GroupKeys(d)
    IN [g \in DOMAIN keys |->
           LET rows == GroupRows(d, keys[g])
           IN [employee |-> keys[g][1], month |-> keys[g][2],
               score |-> SumOf([k \in DOMAIN rows |-> rows[k].score]),
               avg_length |-> MeanOf([k \in DOMAIN rows |-> str_len(rows[k].body)]),
               msg_count |-> CountOf([k \in DOMAIN rows |-> rows[k].body])]]

-----------------------------------------------------------------------------
(* The inputs: test(in).csv as read by pd.read_csv *)

Employees == {1, 2, 3, 4}

Jan1 == Stamp(0, 0)
Jan1Late == Stamp(0, 1)
Jan2 == Stamp(1, 0)
Feb1 == Stamp(31, 0)

Rows(E, D, B) == [from : E, date : D, body : B]

(* many employees in one month, for the ranking *)
RankRows ==
    Rows(Employees, {Jan1}, {"good"}) \cup Rows({1}, {Jan1}, {"bad"})
        \cup Rows({1}, {Feb1}, {"good"})

(* null dates and missing bodies, for the aggregation *)
AggRows ==
    Rows({1, 2}, {Jan1}, {NaN, "good", "bad"})
        \cup Rows({1}, {Unparsable, Feb1}, {"bad"})
        \cup Rows({2}, {Feb1}, {"noted"})

(* the dates about the edge of the window, for the scan *)
ScanRows ==
    Rows({1}, {Jan1, Jan1Late, Jan2, Feb1, Unparsable}, {"bad"})
        \cup Rows({1}, {Jan2}, {"noted"})
        \cup Rows({2}, {Jan1}, {"bad"})

(* two employees with many negative messages each *)
DenseRows == Rows({1, 2}, {Jan1}, {"bad"})

(* one employee's negative messages in the order of their dates, up to
   MaxPerStamp at each of NumStamps dates that are 31 days apart *)
RECURSIVE ChronoLog(_, _)
ChronoLog(counts, k) ==
    IF k > Len(counts) THEN <<>>
    ELSE Repeat([from |-> 1, date |-> Stamp(31 * (k - 1), 0), body |-> "bad"],
                counts[k]) \o ChronoLog(counts, k + 1)

ChronoInputs == {ChronoLog(c, 1) : c \in [1..NumStamps -> 0..MaxPerStamp]}

MonthlyInputs == SeqsUpTo(RankRows, MaxRows) \cup SeqsUpTo(AggRows, MaxAggRows)

ScanInputs ==
    SeqsUpTo(ScanRows, MaxScanRows) \cup SeqsUpTo(DenseRows, MaxDense)
        \cup ChronoInputs

InitWith(inputs) ==
    /\ df \in inputs
    /\ monthly_scores = <<>>
    /\ top_3_pos = <<>>
    /\ top_3_neg = <<>>
    /\ df_neg = <<>>
    /\ flight_risk = <<>>
    /\ features = <<>>
    /\ pending = <<>>
    /\ emp = 0
    /\ dates = <<>>
    /\ i = -1
    /\ count = 0
    /\ pc = "label"
    /\ evaluated = {}

Init == InitWith(MonthlyInputs)

InitScan == InitWith(ScanInputs)

-----------------------------------------------------------------------------
(* The cells *)

LabelSentiment ==
    /\ pc = "label"
    /\ df' = ApplySentiment(df)
    /\ pc' = "eda"
    /\ UNCHANGED <<monthly_scores, top_3_pos, top_3_neg, df_neg, flight_risk,
                   features, pending, emp, dates, i, count, evaluated>>

ParseDates ==
    /\ pc = "eda"
    /\ df' = CoerceDates(df)
    /\ pc' = "score"
    /\ UNCHANGED <<monthly_scores, top_3_pos, top_3_neg, df_neg, flight_risk,
                   features, pending, emp, dates, i, count, evaluated>>

MonthlyScores ==
    /\ pc = "score"
    /\ df' = AddScoreColumns(df)
    /\ monthly_scores' = GroupBySum(AddScoreColumns(df))
    /\ pc' = "rank"
    /\ UNCHANGED <<top_3_pos, top_3_neg, df_neg, flight_risk, features,
                   pending, emp, dates, i, count, evaluated>>

Ranking ==
    /\ pc = "rank"
    /\ top_3_pos' = TopPositive(monthly_scores)
    /\ top_3_neg' = TopNegative(monthly_scores)
    /\ pc' = "filter"
    /\ UNCHANGED <<df, monthly_scores, df_neg, flight_risk, features, pending,
                   emp, dates, i, count, evaluated>>

(* df_neg = ...; flight_risk = []; the iterator of df_neg.groupby('employee') *)
FilterNegative ==
    /\ pc = "filter"
    /\ df_neg' = NegativeRows(df)
    /\ flight_risk' = <<>>
    /\ pending' = EmployeeKeys(NegativeRows(df))
    /\ pc' = "for_emp"
    /\ UNCHANGED <<df, monthly_scores, top_3_pos, top_3_neg, features, emp,
                   dates, i, count, evaluated>>

(* for emp, group in ...: dates = group['date'].tolist() *)
ForEmp ==
    /\ pc = "for_emp"
    /\ IF pending = <<>>
       THEN /\ pc' = "dedup"
            /\ UNCHANGED <<pending, emp, dates, i>>
       ELSE /\ emp' = Head(pending)[1]
            /\ dates' = DatesOf(df_neg, Head(pending)[1])
            /\ pending' = Tail(pending)
            /\ i' = -1
            /\ pc' = "for_i"
    /\ UNCHANGED <<df, monthly_scores, top_3_pos, top_3_neg, df_neg,
                   flight_risk, features, count, evaluated>>

(* for i in range(len(dates)) *)
ForI ==
    /\ pc = "for_i"
    /\ IF i + 1 < Len(dates)
       THEN i' = i + 1 /\ pc' = "count"
       ELSE i' = i /\ pc' = "for_emp"
    /\ UNCHANGED <<df, monthly_scores, top_3_pos, top_3_neg, df_neg,
                   flight_risk, features, pending, emp, dates, count, evaluated>>

(* count = sum(... for d in dates[max(0,i-10):i+1]) *)
Count ==
    /\ pc = "count"
    /\ count' = WindowCount(dates, i)
    /\ evaluated' = evaluated \cup {<<emp, i>>}
    /\ pc' = "if"
    /\ UNCHANGED <<df, monthly_scores, top_3_pos, top_3_neg, df_neg,
                   flight_risk, features, pending, emp, dates, i>>

(* the append without the break *)
IfCountNoBreak ==
    /\ pc = "if"
    /\ IF count >= Threshold
       THEN flight_risk' = Append(flight_risk, emp) /\ pc' = "for_i"
       ELSE flight_risk' = flight_risk /\ pc' = "for_i"
    /\ UNCHANGED <<df, monthly_scores, top_3_pos, top_3_neg, df_neg, features,
                   pending, emp, dates, i, count, evaluated>>

(* if count >= 4: flight_risk.append(emp); break *)
IfCount ==
    /\ pc = "if"
    /\ IF count >= Threshold
       THEN flight_risk' = Append(flight_risk, emp) /\ pc' = "for_emp"
       ELSE flight_risk' = flight_risk /\ pc' = "for_i"
    /\ UNCHANGED <<df, monthly_scores, top_3_pos, top_3_neg, df_neg, features,
                   pending, emp, dates, i, count, evaluated>>

(* the lists that hold each member of S once, in some order *)
ListsOf(S) ==
    {s \in [1..Cardinality(S) -> S] : \A e \in S : \E k \in DOMAIN s : s[k] = e}

(* flight_risk = list(set(flight_risk)): a set iterates in no fixed order *)
Dedup ==
    /\ pc = "dedup"
    /\ flight_risk' \in ListsOf(Range(flight_risk))
    /\ pc' = "features"
    /\ UNCHANGED <<df, monthly_scores, top_3_pos, top_3_neg, df_neg, features,
                   pending, emp, dates, i, count, evaluated>>

FeatureTable ==
    /\ pc = "features"
    /\ features' = Features(df)
    /\ pc' = "done"
    /\ UNCHANGED <<df, monthly_scores, top_3_pos, top_3_neg, df_neg,
                   flight_risk, pending, emp, dates, i, count, evaluated>>

Next ==
    \/ LabelSentiment
    \/ ParseDates
    \/ MonthlyScores
    \/ Ranking
    \/ FilterNegative
    \/ ForEmp
    \/ ForI
    \/ Count
    \/ IfCount
    \/ Dedup
    \/ FeatureTable

Spec == Init /\ [][Next]_vars

SpecScan == InitScan /\ [][Next]_vars

-----------------------------------------------------------------------------
(* Vocabulary of the properties *)

Min(a, b) == IF a < b THEN a ELSE b

Scored == pc \notin {"label", "eda", "score"}
Ranked == Scored /\ pc # "rank"
Scanned == pc \in {"features", "done"}

Orderings(n) ==
    {p \in [1..n -> 1..n] : \A a, b \in 1..n : a # b => p[a] # p[b]}

Permute(s, p) == [k \in DOMAIN s |-> s[p[k]]]

Swapped(s, a, b) == [s EXCEPT ![a] = s[b], ![b] = s[a]]

(* the positions of df that hold a Negative record of employee e with a
   timestamp *)
NegativeStamped(e) ==
    {k \in DOMAIN df : /\ df[k].from = e
                       /\ df[k].sentiment_label = "Negative"
                       /\ df[k].date # NaT}

(* whole days from timestamp a to the later timestamp b *)
WholeDays(a, b) == (b - a) \div TicksPerDay

(* some record of e opens a window of 30 whole days that holds n of them *)
HasWindowOf(e, n) ==
    \E a \in NegativeStamped(e) :
        Cardinality({b \in NegativeStamped(e) :
                        /\ df[b].date >= df[a].date
                        /\ WholeDays(df[a].date, df[b].date) <= 30}) >= n

-----------------------------------------------------------------------------
(* C1: once the scan has run, an employee is in flight_risk if and only if
   at least 4 of that employee's Negative records with a timestamp lie in one
   window, the latest at most 30 whole days after the earliest. *)
C1_FlaggedIffWindow ==
    Scanned =>
        \A e \in Employees : (e \in Range(flight_risk)) <=> HasWindowOf(e, 4)

(* an employee flagged on four records, two of them 30 whole days apart *)
C1_Witness ==
    /\ pc = "done"
    /\ \E e \in Range(flight_risk) :
          /\ Cardinality(NegativeStamped(e)) = 4
          /\ \E a, b \in NegativeStamped(e) :
                WholeDays(df[a].date, df[b].date) = 30

BestBefore(q, r) ==
    q.score > r.score \/ (q.score = r.score /\ q.employee < r.employee)

WorstBefore(q, r) ==
    q.score < r.score \/ (q.score = r.score /\ q.employee < r.employee)

MonthRows(m) == {r \in Range(monthly_scores) : r.month = m}

OfMonth(s, m) == SelectSeq(s, LAMBDA r : r.month = m)

(* C2: for every month of monthly_scores, the month's rows of top_3_pos are
   the first min(3, n) of the month's n rows by score descending then
   employee ascending, and those of top_3_neg the first min(3, n) by score
   ascending then employee ascending; nothing else is in either table. *)
C2_TopThreePerMonth ==
    Ranked =>
        /\ Range(top_3_pos) \subseteq Range(monthly_scores)
        /\ Range(top_3_neg) \subseteq Range(monthly_scores)
        /\ \A m \in 1..12 :
              LET best == OfMonth(top_3_pos, m)
                  worst == OfMonth(top_3_neg, m)
                  n == Cardinality(MonthRows(m))
              IN /\ Len(best) = Min(3, n)
                 /\ Len(worst) = Min(3, n)
                 /\ \A p \in 1..Len(best) :
                       Cardinality({q \in MonthRows(m) : BestBefore(q, best[p])}) = p - 1
                 /\ \A p \in 1..Len(worst) :
                       Cardinality({q \in MonthRows(m) : WorstBefore(q, worst[p])}) = p - 1

(* a month with more than 3 employees, some tied and some not *)
C2_Witness ==
    /\ Ranked
    /\ \E m \in 1..12 :
          /\ Cardinality(MonthRows(m)) > 3
          /\ \E q, r \in MonthRows(m) : q # r /\ q.score = r.score
          /\ \E q, r \in MonthRows(m) : q.score # r.score

StampedKeys ==
    {<<df[k].from, to_period(df[k].date)>> :
        k \in {x \in DOMAIN df : df[x].date # NaT}}

RecordsOf(e, m, label) ==
    {k \in DOMAIN df : /\ df[k].from = e
                       /\ df[k].date # NaT
                       /\ to_period(df[k].date) = m
                       /\ df[k].sentiment_label = label}

(* C3: monthly_scores holds exactly one row for each (employee, month) that
   has a record with a timestamp and no other row; a row's score is the
   number of Positive minus the number of Negative records of that employee
   in that month, and a record without a timestamp is in no row. *)
C3_MonthlyScoresExact ==
    Scored =>
        /\ Len(monthly_scores) = Cardinality(StampedKeys)
        /\ {<<r.employee, r.month>> : r \in Range(monthly_scores)} = StampedKeys
        /\ \A r \in Range(monthly_scores) :
              r.score = Cardinality(RecordsOf(r.employee, r.month, "Positive"))
                          - Cardinality(RecordsOf(r.employee, r.month, "Negative"))

(* a group of two records that cancel, and a record without a timestamp *)
C3_Witness ==
    /\ Scored
    /\ \E e \in Employees, m \in 1..12 :
          RecordsOf(e, m, "Positive") # {} /\ RecordsOf(e, m, "Negative") # {}
    /\ \E k \in DOMAIN df : df[k].date = NaT

(* C4: when an employee has two Negative records, they are counted in one
   window if their calendar days are 30 apart and are not if their calendar
   days are 31 apart, whatever their times of day. *)
C4_CalendarDayBoundary ==
    (pc = "if" /\ Len(dates) = 2 /\ i = 1 /\ dates[1] # NaT /\ dates[2] # NaT) =>
        /\ DayOf(dates[2]) - DayOf(dates[1]) = 30 => count = 2
        /\ DayOf(dates[2]) - DayOf(dates[1]) = 31 => count = 1

OtherDates == {Jan1, Jan2, Feb1, NaT}

NotNegative == {k \in DOMAIN df : df[k].sentiment_label # "Negative"}

Without(k) == TakeIdx(df, DOMAIN df \ {k})

Redated(k, t) == [df EXCEPT ![k].date = t, ![k].month = to_period(t)]

(* Unparsable stands for the date that parses to NaT *)
Added(e, t, body) ==
    Append(df, AddScoreColumns(CoerceDates(ApplySentiment(
                   <<[from |-> e, date |-> IF t = NaT THEN Unparsable ELSE t,
                      body |-> body]>>)))[1])

(* C5: the flagged employees are those of every data frame that differs
   from df in one record that is not Negative: that record removed, re-dated
   or added. *)
C5_NegativeOnly ==
    pc = "done" =>
        /\ \A k \in NotNegative :
              /\ FlightRiskSet(Without(k)) = Range(flight_risk)
              /\ \A t \in OtherDates :
                    FlightRiskSet(Redated(k, t)) = Range(flight_risk)
        /\ \A e \in {1, 2}, t \in OtherDates, body \in {NaN, "good", "noted"} :
              FlightRiskSet(Added(e, t, body)) = Range(flight_risk)

(* an employee one Negative record short of the threshold, with a record
   that is not Negative in the data *)
C5_Witness ==
    /\ pc = "done"
    /\ NotNegative # {}
    /\ \E e \in Employees :
          Cardinality({k \in DOMAIN df : df[k].from = e /\ df[k].sentiment_label = "Negative"}) = 3

(* C6: every row of the feature table counts the records of its
   (employee, month) group, the ones without a body included, so at least 1. *)
C6_MessageCount ==
    pc = "done" =>
        \A f \in Range(features) :
            /\ f.msg_count = Cardinality({k \in DOMAIN df :
                                             /\ df[k].from = f.employee
                                             /\ df[k].date # NaT
                                             /\ to_period(df[k].date) = f.month})
            /\ f.msg_count >= 1

(* C8: no two rows of monthly_scores share an employee and a month, and the
   two rankings are the same for every order of the rows of monthly_scores
   and with any two records of df exchanged.  The inputs hold every order of
   their records and exchanges make up every reordering, so the rankings are
   the same for every order of the records. *)
C8_OrderIndependent ==
    pc = "filter" =>
        /\ \A a, b \in DOMAIN monthly_scores :
              (/\ monthly_scores[a].employee = monthly_scores[b].employee
               /\ monthly_scores[a].month = monthly_scores[b].month) => a = b
        /\ \A a, b \in DOMAIN df :
              a < b =>
                  /\ TopPositive(GroupBySum(Swapped(df, a, b))) = top_3_pos
                  /\ TopNegative(GroupBySum(Swapped(df, a, b))) = top_3_neg
        /\ \A p \in Orderings(Len(monthly_scores)) :
              /\ TopPositive(Permute(monthly_scores, p)) = top_3_pos
              /\ TopNegative(Permute(monthly_scores, p)) = top_3_neg

(* records out of employee order, and two employees tied in a month *)
C8_Witness ==
    /\ pc = "filter"
    /\ \E a, b \in DOMAIN df : a < b /\ df[a].from > df[b].from
    /\ \E a, b \in DOMAIN monthly_scores :
          /\ a # b
          /\ monthly_scores[a].month = monthly_scores[b].month
          /\ monthly_scores[a].score = monthly_scores[b].score

Lo(ds, hi) ==
    CHOOSE lo \in 0..hi :
        /\ ds[lo + 1] # NaT /\ WholeDays(ds[lo + 1], ds[hi + 1]) <= 30
        /\ \A j \in 0..(lo - 1) :
              ~(ds[j + 1] # NaT /\ WholeDays(ds[j + 1], ds[hi + 1]) <= 30)

(* C9: the count the scan compares with the threshold at position hi is
   hi - lo + 1, lo the smallest position whose timestamp is at most 30 whole
   days before that of hi. *)
C9_WindowCount ==
    (pc = "if" /\ dates[i + 1] # NaT) => count = i - Lo(dates, i) + 1

(* a position more than 10 behind the first one, with a window of several
   records *)
C9_Witness ==
    pc = "if" /\ dates[i + 1] # NaT /\ i > 10 /\ count = 3

(* the statements still to run, at most *)
AfterGroups ==
    3 * Cardinality({k \in DOMAIN df_neg : <<df_neg[k].employee>> \in Range(pending)})
        + 2 * Len(pending) + 3

StepsLeft ==
    CASE pc = "label" -> 5 * Len(df) + 8
      [] pc = "eda" -> 5 * Len(df) + 7
      [] pc = "score" -> 5 * Len(df) + 6
      [] pc = "rank" -> 5 * Len(df) + 5
      [] pc = "filter" -> 5 * Len(df) + 4
      [] pc = "for_emp" -> AfterGroups
      [] pc = "for_i" -> AfterGroups + 3 * (Len(dates) - (i + 1)) + 1
      [] pc = "count" -> AfterGroups + 3 * (Len(dates) - (i + 1)) + 3
      [] pc = "if" -> AfterGroups + 3 * (Len(dates) - (i + 1)) + 2
      [] pc = "dedup" -> 2
      [] pc = "features" -> 1
      [] pc = "done" -> 0

TrueCount(ds, p) ==
    Cardinality({j \in 0..p : /\ ds[j + 1] # NaT
                              /\ ds[p + 1] # NaT
                              /\ WholeDays(ds[j + 1], ds[p + 1]) <= 30})

ReachesFour(e, p) == TrueCount(DatesOf(df_neg, e), p) >= 4

(* the state part of C10 *)
C10_ScanInvariant ==
    /\ \A e \in Range(flight_risk) :
          \E p \in 0..Len(df_neg) :
              /\ <<e, p>> \in evaluated
              /\ ReachesFour(e, p)
              /\ \A q \in 0..(p - 1) : <<e, q>> \in evaluated /\ ~ReachesFour(e, q)
              /\ \A q \in (p + 1)..Len(df_neg) : <<e, q>> \notin evaluated
    /\ \A v \in evaluated :
          ReachesFour(v[1], v[2]) =>
              \/ v[1] \in Range(flight_risk)
              \/ pc = "if" /\ emp = v[1] /\ i = v[2]
    /\ pc \in {"for_i", "count", "if"} => emp \notin Range(flight_risk)
    /\ pc \in {"dedup", "features", "done"} =>
          \A k \in DOMAIN df :
              df[k].sentiment_label = "Negative" => <<df[k].from, 0>> \in evaluated
    /\ \A e \in Employees :
          Cardinality({k \in DOMAIN flight_risk : flight_risk[k] = e}) <= 1
    /\ StepsLeft = 0 <=> pc = "done"

(* C10: an employee is appended at the first position whose window holds 4
   records, no later position of that employee is evaluated and the scan goes
   on with the next employee; every employee with a Negative record is
   visited, no employee is listed twice, and every step lowers the number
   of statements left to run, which is 0 at the end only. *)
C10_ShortCircuit ==
    /\ []C10_ScanInvariant
    /\ [][StepsLeft' < StepsLeft /\ StepsLeft' >= 0]_vars

(* an employee flagged with a record behind the one that flagged it, and
   a later employee who is not flagged *)
C10_Witness ==
    /\ pc = "done"
    /\ \E e \in Range(flight_risk) :
          /\ Cardinality({k \in DOMAIN df_neg : df_neg[k].employee = e}) > 4
          /\ \E k \in DOMAIN df_neg :
                df_neg[k].employee > e /\ df_neg[k].employee \notin Range(flight_risk)

====
